---------------------------- MODULE Spec2Model ----------------------------
(***************************************************************************)
(* Model of the Jira ETL pipeline (ETLJira/src): the batch orchestrator    *)
(* Pipeline.run with its ThreadPoolExecutor of page units, the record      *)
(* transformer Transform.transform_issue and the field normalizer          *)
(* Transform.normalize_field_name.                                         *)
(*                                                                         *)
(* Three specifications share the variables:                               *)
(*   Spec           the orchestrator and its page units                    *)
(*   TransformSpec  transform_issue applied to bounded records/catalogs    *)
(*   NormalizeSpec  normalize_field_name applied to bounded display names  *)
(***************************************************************************)
EXTENDS Integers, Sequences, FiniteSets

VARIABLES
    pc,            \* position of the main thread inside Pipeline.run
    total,         \* number of issues the remote project holds
    pageSize,      \* int(config.BATCH_SIZE)
    nbIssues,      \* local nbIssues of Pipeline.run (-1 before the count)
    iterations,    \* local iterations of Pipeline.run
    futures,       \* the list futures: one page unit per submitted batch
    countQueries,  \* calls of countTotalIussues issued so far
    metaFetches,   \* calls of get_jira_fields_metadata issued so far
    store,         \* issue numbers whose JSON document is on disk
    runError,      \* what Pipeline.run raised: NoError, CountError or UnitError(j)
    tPhase,        \* TransformSpec: "input" or "called"
    tIssue0,       \* TransformSpec: the issue as passed in
    tCatalog0,     \* TransformSpec: fields_metadata as passed in
    tIssue,        \* TransformSpec: the issue object after the call
    tCatalog,      \* TransformSpec: fields_metadata after the call
    tResult,       \* TransformSpec: "none", "returned" or the ValueError raised
    nPhase,        \* NormalizeSpec: "input", "once" or "twice"
    nInput,        \* NormalizeSpec: the display name
    nOnce,         \* NormalizeSpec: normalize_field_name(nInput)
    nTwice         \* NormalizeSpec: normalize_field_name(nOnce)

pvars == <<pc, total, pageSize, nbIssues, iterations, futures,
           countQueries, metaFetches, store, runError>>
tvars == <<tPhase, tIssue0, tCatalog0, tIssue, tCatalog, tResult>>
nvars == <<nPhase, nInput, nOnce, nTwice>>
vars == <<pvars, tvars, nvars>>

---------------------------------------------------------------------------
(* Bounds of the model *)

MaxTotal == 6
MaxPageSize == 3

(* ThreadPoolExecutor(max_workers=5) *)
MaxWorkers == 5

---------------------------------------------------------------------------
(* The part of the state a specification does not use stays as it is here *)

NoError == [kind |-> "none", unit |-> 0]
CountError == [kind |-> "count", unit |-> 0]
UnitError(j) == [kind |-> "unit", unit |-> j]

PIdle ==
    /\ pc = "idle"
    /\ total = 0
    /\ pageSize = 1
    /\ nbIssues = -1
    /\ iterations = -1
    /\ futures = <<>>
    /\ countQueries = 0
    /\ metaFetches = 0
    /\ store = {}
    /\ runError = NoError

TIdle ==
    /\ tPhase = "idle"
    /\ tIssue0 = "none"
    /\ tCatalog0 = "none"
    /\ tIssue = "none"
    /\ tCatalog = "none"
    /\ tResult = "none"

NIdle ==
    /\ nPhase = "idle"
    /\ nInput = <<>>
    /\ nOnce = <<>>
    /\ nTwice = <<>>

---------------------------------------------------------------------------
(* Pipeline.run and its page units *)

Min(a, b) == IF a < b THEN a ELSE b

\* math.ceil(nbIssues / int(BATCH_SIZE)) on non-negative ints below 2^53
\* (variant: floor division in place of the ceiling)
CeilDivFloor(n, d) == n \div d
CeilDiv(n, d) == (n + d - 1) \div d

\* start_index = i * int(self.config.BATCH_SIZE)
StartIndex(i) == i * pageSize

\* the maxResults argument run_batch hands to extract_batch_issues
\* (variant: the request cut to the issues left after start)
RequestSizeRemaining(start) == Min(pageSize, total - start)
RequestSize(start) == pageSize

\* the remote search: at most maxResults issues from startAt on
RemotePage(start, maxResults) ==
    IF total - start <= 0 THEN 0 ELSE Min(maxResults, total - start)

Executing == {"FetchingMeta", "FetchingPage", "Transforming", "Storing"}
Terminal == {"Done", "Failed"}

Units == 1..Len(futures)

Running == {i \in Units : futures[i].state \in Executing}

\* a worker thread of the pool is free to take the next work item
\* (variant: a thread per work item, no width)
WorkerAvailableUnbounded == TRUE
WorkerAvailable == Cardinality(Running) < MaxWorkers

\* executor.__exit__ -> shutdown(wait=True): returns once every work item ran
\* (variant: shutdown(wait=False))
PoolDrainedNoWait == TRUE
PoolDrained == \A i \in Units : futures[i].state \in Terminal

NewUnit(i) ==
    [start |-> StartIndex(i), state |-> "Pending", k |-> 0,
     cat |-> -1, req |-> -1, got |-> -1]

PInit ==
    /\ pc = "count"
    /\ total \in 0..MaxTotal
    /\ pageSize \in 1..MaxPageSize
    /\ nbIssues = -1
    /\ iterations = -1
    /\ futures = <<>>
    /\ countQueries = 0
    /\ metaFetches = 0
    /\ store = {}
    /\ runError = NoError

\* nbIssues = countTotalIussues(...); iterations = math.ceil(...)
CountTotalOk ==
    /\ pc = "count"
    /\ countQueries' = countQueries + 1
    /\ nbIssues' = total
    /\ iterations' = CeilDiv(total, pageSize)
    /\ pc' = "submit"
    /\ UNCHANGED <<total, pageSize, futures, metaFetches, store, runError>>

\* _check_response raises: run() fails before the pool is created
CountTotalFail ==
    /\ pc = "count"
    /\ countQueries' = countQueries + 1
    /\ pc' = "raised"
    /\ runError' = CountError
    /\ UNCHANGED <<total, pageSize, nbIssues, iterations, futures,
                   metaFetches, store>>

\* for i in range(iterations): futures.append(executor.submit(...))
Submit ==
    /\ pc = "submit"
    /\ Len(futures) < iterations
    /\ futures' = Append(futures, NewUnit(Len(futures)))
    /\ UNCHANGED <<pc, total, pageSize, nbIssues, iterations,
                   countQueries, metaFetches, store, runError>>

EndSubmit ==
    /\ pc = "submit"
    /\ Len(futures) = iterations
    /\ pc' = "wait"
    /\ UNCHANGED <<total, pageSize, nbIssues, iterations, futures,
                   countQueries, metaFetches, store, runError>>

SetUnit(i, u) == futures' = [futures EXCEPT ![i] = u]

\* an exception leaves run_batch: the future holds it, the frame's locals
\* (jira_fields_metadata, batch_issues) are gone; k keeps how many issues of
\* the page were saved before
FailedUnit(u) ==
    [u EXCEPT !.state = "Failed", !.cat = -1, !.req = -1, !.got = -1]

\* a pool worker dequeues the oldest queued work item (FIFO work queue)
StartUnit(i) ==
    /\ futures[i].state = "Pending"
    /\ \A j \in 1..(i - 1) : futures[j].state # "Pending"
    /\ WorkerAvailable
    /\ SetUnit(i, [futures[i] EXCEPT !.state = "FetchingMeta"])
    /\ UNCHANGED <<pc, total, pageSize, nbIssues, iterations,
                   countQueries, metaFetches, store, runError>>

\* jira_fields_metadata = self.get_metadata()
\* (variant: the catalog fetched by the first unit and cached for the others)
FetchMetadataOkCached(i) ==
    /\ futures[i].state = "FetchingMeta"
    /\ metaFetches' = IF metaFetches = 0 THEN 1 ELSE metaFetches
    /\ SetUnit(i, [futures[i] EXCEPT !.state = "FetchingPage", !.cat = 0])
    /\ UNCHANGED <<pc, total, pageSize, nbIssues, iterations,
                   countQueries, store, runError>>
FetchMetadataOk(i) ==
    /\ futures[i].state = "FetchingMeta"
    /\ metaFetches' = metaFetches + 1
    /\ SetUnit(i, [futures[i] EXCEPT !.state = "FetchingPage", !.cat = i])
    /\ UNCHANGED <<pc, total, pageSize, nbIssues, iterations,
                   countQueries, store, runError>>

FetchMetadataFail(i) ==
    /\ futures[i].state = "FetchingMeta"
    /\ metaFetches' = metaFetches + 1
    /\ SetUnit(i, FailedUnit(futures[i]))
    /\ UNCHANGED <<pc, total, pageSize, nbIssues, iterations,
                   countQueries, store, runError>>

\* batch_issues = self.extracter.extract_batch_issues(start, BATCH_SIZE)
FetchPageOk(i) ==
    /\ futures[i].state = "FetchingPage"
    /\ LET req == RequestSize(futures[i].start)
           got == RemotePage(futures[i].start, req)
       IN SetUnit(i, [futures[i] EXCEPT
                        !.req = req, !.got = got,
                        !.state = IF got = 0 THEN "Done" ELSE "Transforming"])
    /\ UNCHANGED <<pc, total, pageSize, nbIssues, iterations,
                   countQueries, metaFetches, store, runError>>

FetchPageFail(i) ==
    /\ futures[i].state = "FetchingPage"
    /\ SetUnit(i, FailedUnit(futures[i]))
    /\ UNCHANGED <<pc, total, pageSize, nbIssues, iterations,
                   countQueries, metaFetches, store, runError>>

\* transfomred_issue = self.transformer.transform_issue(issue, metadata)
TransformRecordOk(i) ==
    /\ futures[i].state = "Transforming"
    /\ SetUnit(i, [futures[i] EXCEPT !.state = "Storing"])
    /\ UNCHANGED <<pc, total, pageSize, nbIssues, iterations,
                   countQueries, metaFetches, store, runError>>

TransformRecordFail(i) ==
    /\ futures[i].state = "Transforming"
    /\ SetUnit(i, FailedUnit(futures[i]))
    /\ UNCHANGED <<pc, total, pageSize, nbIssues, iterations,
                   countQueries, metaFetches, store, runError>>

\* self.loader.save_issue(transfomred_issue), then the next issue of the page
StoreRecordOk(i) ==
    /\ futures[i].state = "Storing"
    /\ store' = store \cup {futures[i].start + futures[i].k}
    /\ SetUnit(i, [futures[i] EXCEPT
                     !.k = @ + 1,
                     !.state = IF futures[i].k + 1 = futures[i].got
                               THEN "Done" ELSE "Transforming"])
    /\ UNCHANGED <<pc, total, pageSize, nbIssues, iterations,
                   countQueries, metaFetches, runError>>

\* create_issue_folder or save_json raises: no document for this issue
StoreRecordFail(i) ==
    /\ futures[i].state = "Storing"
    /\ SetUnit(i, FailedUnit(futures[i]))
    /\ UNCHANGED <<pc, total, pageSize, nbIssues, iterations,
                   countQueries, metaFetches, store, runError>>

\* save_json has written the document, then download_attachments raises
\* outside its try (attachment["content"], attachment["filename"])
StoreRecordFailAfterSave(i) ==
    /\ futures[i].state = "Storing"
    /\ store' = store \cup {futures[i].start + futures[i].k}
    /\ SetUnit(i, FailedUnit(futures[i]))
    /\ UNCHANGED <<pc, total, pageSize, nbIssues, iterations,
                   countQueries, metaFetches, runError>>

\* for future in futures: future.result()
\* result() blocks until its future is finished, so the loop gets past index
\* j only when units 1..j are Done and raises at the first Failed one.
\* (variant: as_completed order, any failed future may be met first)
FirstFailedAny(j) == futures[j].state = "Failed"
FirstFailed(j) ==
    /\ futures[j].state = "Failed"
    /\ \A h \in 1..(j - 1) : futures[h].state = "Done"

WaitResultsRaise ==
    /\ pc = "wait"
    /\ \E j \in Units :
         /\ FirstFailed(j)
         /\ runError' = UnitError(j)
    /\ pc' = "exit_err"
    /\ UNCHANGED <<total, pageSize, nbIssues, iterations, futures,
                   countQueries, metaFetches, store>>

WaitResultsOk ==
    /\ pc = "wait"
    /\ \A j \in Units : futures[j].state = "Done"
    /\ pc' = "exit_ok"
    /\ UNCHANGED <<total, pageSize, nbIssues, iterations, futures,
                   countQueries, metaFetches, store, runError>>

\* leaving the with block: ThreadPoolExecutor.__exit__ joins the workers
ExitPoolReturn ==
    /\ pc = "exit_ok"
    /\ PoolDrained
    /\ pc' = "returned"
    /\ UNCHANGED <<total, pageSize, nbIssues, iterations, futures,
                   countQueries, metaFetches, store, runError>>

ExitPoolRaise ==
    /\ pc = "exit_err"
    /\ PoolDrained
    /\ pc' = "raised"
    /\ UNCHANGED <<total, pageSize, nbIssues, iterations, futures,
                   countQueries, metaFetches, store, runError>>

---------------------------------------------------------------------------
(* Strings are sequences of characters.  An ASCII character is the string  *)
(* of length one; a non-ASCII character is named by its code point.        *)

LowerLetters == <<"a","b","c","d","e","f","g","h","i","j","k","l","m",
                  "n","o","p","q","r","s","t","u","v","w","x","y","z">>
UpperLetters == <<"A","B","C","D","E","F","G","H","I","J","K","L","M",
                  "N","O","P","Q","R","S","T","U","V","W","X","Y","Z">>
Digits == {"0","1","2","3","4","5","6","7","8","9"}

Range(s) == {s[i] : i \in 1..Len(s)}

\* unicodedata.normalize('NFKD', c) for one character
NFKD(c) ==
    CASE c = "U+00E9" -> <<"e", "U+0301">>   \* e acute = e + combining acute
      [] c = "U+00A0" -> <<" ">>             \* no-break space = space
      [] OTHER -> <<c>>

\* unicodedata.combining(c) != 0
Combining(c) == c = "U+0301"

\* the class \s of re on str
IsSpace(c) == c \in {" ", "U+00A0"}

\* the class [a-zA-Z0-9\-]
IsWordChar(c) ==
    c \in Range(LowerLetters) \cup Range(UpperLetters) \cup Digits \cup {"-"}

\* str.lower() on one character
LowerChar(c) ==
    IF c \in Range(UpperLetters)
    THEN LowerLetters[CHOOSE i \in 1..Len(UpperLetters) : UpperLetters[i] = c]
    ELSE c

\* lines 97-102: NFKD, then drop the combining marks
StripAccents(s) ==
    LET f[i \in 0..Len(s)] ==
            IF i = 0 THEN <<>>
            ELSE f[i - 1] \o SelectSeq(NFKD(s[i]), LAMBDA c : ~Combining(c))
    IN f[Len(s)]

\* re.sub(r'\s+', '-', s)
ReplaceSpaceRuns(s) ==
    LET f[i \in 0..Len(s)] ==
            IF i = 0 THEN <<>>
            ELSE IF ~IsSpace(s[i]) THEN Append(f[i - 1], s[i])
            ELSE IF i > 1 /\ IsSpace(s[i - 1]) THEN f[i - 1]
            ELSE Append(f[i - 1], "-")
    IN f[Len(s)]

\* re.sub(r'[^a-zA-Z0-9\-]', '-', s)
ReplaceNonWord(s) == [i \in 1..Len(s) |-> IF IsWordChar(s[i]) THEN s[i] ELSE "-"]

\* re.sub(r'-+', '-', s)
CollapseHyphens(s) ==
    LET f[i \in 0..Len(s)] ==
            IF i = 0 THEN <<>>
            ELSE IF s[i] = "-" /\ i > 1 /\ s[i - 1] = "-" THEN f[i - 1]
            ELSE Append(f[i - 1], s[i])
    IN f[Len(s)]

\* s.strip('-')
StripHyphens(s) ==
    LET keep == {i \in 1..Len(s) : s[i] # "-"}
    IN IF keep = {} THEN <<>>
       ELSE SubSeq(s, CHOOSE i \in keep : \A j \in keep : i <= j,
                      CHOOSE i \in keep : \A j \in keep : i >= j)

\* s.lower()
Lower(s) == [i \in 1..Len(s) |-> LowerChar(s[i])]

(* Python values that can stand where a display name is expected *)
Str(s) == [t |-> "str", s |-> s]
None == [t |-> "none"]
IntValue == [t |-> "int"]          \* a non-zero number: truthy, not a str

\* truth value of a value in "if field_name:" / "not field_name"
Truthy(v) == \/ v.t = "int"
             \/ v.t = "str" /\ v.s # <<>>

\* Transform.normalize_field_name
\* (variant: strip('-') applied before the character replacement)
normalize_field_name_strip_early(field_name) ==
    IF ~Truthy(field_name) \/ field_name.t # "str" THEN <<>>
    ELSE Lower(CollapseHyphens(ReplaceNonWord(
             StripHyphens(ReplaceSpaceRuns(StripAccents(field_name.s))))))
normalize_field_name(field_name) ==
    IF ~Truthy(field_name) \/ field_name.t # "str" THEN <<>>
    ELSE Lower(StripHyphens(CollapseHyphens(ReplaceNonWord(
             ReplaceSpaceRuns(StripAccents(field_name.s))))))

---------------------------------------------------------------------------
(* Transform.transform_issue *)

MaxFields == 3
MaxCatalog == 2

CustomPrefix == <<"c","u","s","t","o","m","f","i","e","l","d","_">>

\* field_name.startswith('customfield_')
StartsWith(s, p) == Len(s) >= Len(p) /\ SubSeq(s, 1, Len(p)) = p

CustomField1 == CustomPrefix \o <<"1">>
CustomField2 == CustomPrefix \o <<"2">>
FixedFieldA == <<"a">>
FixedFieldCustom == <<"c","u","s","t","o","m">>

FieldKeys == {CustomField1, CustomField2, FixedFieldA, FixedFieldCustom}

\* each input field carries a value of its own, so a lost or moved value shows
InputValue(key) ==
    CASE key = CustomField1 -> "X"
      [] key = CustomField2 -> "Y"
      [] key = FixedFieldA -> "Z"
      [] OTHER -> "W"

\* the dict issue['fields'] in insertion order
FieldDicts ==
    LET keySeqs == UNION {[1..n -> FieldKeys] : n \in 0..MaxFields}
        distinct == {q \in keySeqs : \A i, j \in 1..Len(q) : i # j => q[i] # q[j]}
    IN {[i \in 1..Len(q) |-> [key |-> q[i], val |-> InputValue(q[i])]] : q \in distinct}

Issues ==
    {[kind |-> "dict", hasFields |-> TRUE, fields |-> f] : f \in FieldDicts}
    \cup {[kind |-> "dict", hasFields |-> FALSE, fields |-> <<>>],
          [kind |-> "list", hasFields |-> FALSE, fields |-> <<>>]}

CatalogNames ==
    {Str(<<"A">>), Str(<<"a", "_">>), Str(<<"U+00E9", " ", "B">>), Str(<<"_">>),
     None, IntValue}

CatalogEntries ==
    {[isDict |-> TRUE, id |-> k, name |-> n] :
        k \in {CustomField1, CustomField2}, n \in CatalogNames}
    \cup {[isDict |-> FALSE, id |-> <<>>, name |-> None]}

EntrySeqs == UNION {[1..n -> CatalogEntries] : n \in 0..MaxCatalog}

Catalogs ==
    {[kind |-> "list", entries |-> e] : e \in EntrySeqs}
    \cup {[kind |-> "tuple", entries |-> e] : e \in {q \in EntrySeqs : Len(q) = 1}}
    \cup {[kind |-> "dict", entries |-> <<>>]}

HasKey(fields, key) == \E i \in 1..Len(fields) : fields[i].key = key
IndexOf(fields, key) == CHOOSE i \in 1..Len(fields) : fields[i].key = key
ValueOf(fields, key) == fields[IndexOf(fields, key)].val
Values(fields) == {fields[i].val : i \in 1..Len(fields)}

\* fields.pop(key): the other entries keep their order
DictPop(fields, key) == SelectSeq(fields, LAMBDA e : e.key # key)

\* fields[key] = val: an existing key keeps its place, a new one goes last
DictSet(fields, key, val) ==
    IF HasKey(fields, key)
    THEN [i \in 1..Len(fields) |->
            IF fields[i].key = key THEN [key |-> key, val |-> val] ELSE fields[i]]
    ELSE Append(fields, [key |-> key, val |-> val])

\* Transform.get_custom_fields_names: the keys of fields, in order
get_custom_fields_names(issue) ==
    LET f == issue.fields
        keys == [i \in 1..Len(f) |-> f[i].key]
    IN SelectSeq(keys, LAMBDA k : StartsWith(k, CustomPrefix))

\* Transform.get_correspond_name_by_field_id: first dict entry with that id
get_correspond_name_by_field_id(fields_metadata, field_name) ==
    LET e == fields_metadata.entries
        hits == {i \in 1..Len(e) : e[i].isDict /\ e[i].id = field_name}
    IN IF hits = {} THEN None
       ELSE e[CHOOSE i \in hits : \A j \in hits : i <= j].name

\* Transform.get_normalized_field_name
get_normalized_field_name(fields_list, field_id) ==
    LET field_name == get_correspond_name_by_field_id(fields_list, field_id)
    IN IF Truthy(field_name) THEN normalize_field_name(field_name) ELSE <<>>

\* Transform.rename_customfield, on issue['fields'] (the caller has checked
\* that issue is a dict with a 'fields' key)
\* (variants: fields[old_name] read without pop; an existing new_name kept)
rename_customfield_keep_old(fields, old_name, new_name) ==
    IF ~HasKey(fields, old_name) THEN fields
    ELSE DictSet(fields, new_name, ValueOf(fields, old_name))
rename_customfield_no_overwrite(fields, old_name, new_name) ==
    IF ~HasKey(fields, old_name) \/ HasKey(fields, new_name) THEN fields
    ELSE DictSet(DictPop(fields, old_name), new_name, ValueOf(fields, old_name))
rename_customfield(fields, old_name, new_name) ==
    IF ~HasKey(fields, old_name) THEN fields
    ELSE DictSet(DictPop(fields, old_name), new_name, ValueOf(fields, old_name))

\* lines 38-51: the rename loop over the snapshot custom_fields_names
RenameLoop(issue, fields_metadata) ==
    LET names == get_custom_fields_names(issue)
        f[i \in 0..Len(names)] ==
            IF i = 0 THEN issue.fields
            ELSE LET old_name == names[i]
                     new_name == get_normalized_field_name(fields_metadata, old_name)
                 IN IF new_name # <<>> /\ new_name # old_name
                    THEN rename_customfield(f[i - 1], old_name, new_name)
                    ELSE f[i - 1]
    IN [issue EXCEPT !.fields = f[Len(names)]]

ErrIssueNotDict == "ValueError: L'issue doit etre un dictionnaire"
ErrNoFields == "ValueError: L'issue doit contenir la cle 'fields'"
ErrMetadataNotList == "ValueError: fields_metadata doit etre une liste"
ErrFieldsListNotList == "ValueError: fields_list doit etre une liste"
ValidationErrors == {ErrIssueNotDict, ErrNoFields, ErrMetadataNotList}

\* Transform.transform_issue: what it returns or raises, and the issue after
\* (variant: without lines 34-36, the list check left to line 65)
transform_issue_lazy_check(issue, fields_metadata) ==
    IF issue.kind # "dict"
    THEN [result |-> ErrIssueNotDict, issue |-> issue]
    ELSE IF ~issue.hasFields
    THEN [result |-> ErrNoFields, issue |-> issue]
    ELSE IF fields_metadata.kind # "list" /\ get_custom_fields_names(issue) # <<>>
    THEN [result |-> ErrFieldsListNotList, issue |-> issue]
    ELSE IF fields_metadata.kind # "list"
    THEN [result |-> "returned", issue |-> issue]
    ELSE [result |-> "returned", issue |-> RenameLoop(issue, fields_metadata)]
transform_issue(issue, fields_metadata) ==
    IF issue.kind # "dict"
    THEN [result |-> ErrIssueNotDict, issue |-> issue]
    ELSE IF ~issue.hasFields
    THEN [result |-> ErrNoFields, issue |-> issue]
    ELSE IF fields_metadata.kind # "list"
    THEN [result |-> ErrMetadataNotList, issue |-> issue]
    ELSE [result |-> "returned", issue |-> RenameLoop(issue, fields_metadata)]

TInit ==
    /\ tPhase = "input"
    /\ tIssue0 \in Issues
    /\ tCatalog0 \in Catalogs
    /\ tIssue = tIssue0
    /\ tCatalog = tCatalog0
    /\ tResult = "none"

\* one call transform_issue(issue, fields_metadata); the catalog is only read
TransformIssue ==
    /\ tPhase = "input"
    /\ LET r == transform_issue(tIssue, tCatalog)
       IN /\ tResult' = r.result
          /\ tIssue' = r.issue
    /\ tPhase' = "called"
    /\ UNCHANGED <<tIssue0, tCatalog0, tCatalog>>

TransformInit == PIdle /\ TInit /\ NIdle

TransformNext == TransformIssue /\ UNCHANGED <<pvars, nvars>>

TransformSpec == TransformInit /\ [][TransformNext]_vars

---------------------------------------------------------------------------
(* Transform.normalize_field_name applied twice *)

MaxNameLen == 3

Alphabet == {"a", "B", "1", "-", " ", "_", "U+00E9", "U+0301", "U+65E5", "U+00A0"}

DisplayNames == UNION {[1..n -> Alphabet] : n \in 0..MaxNameLen}

NInit ==
    /\ nPhase = "input"
    /\ nInput \in DisplayNames
    /\ nOnce = <<>>
    /\ nTwice = <<>>

NormalizeOnce ==
    /\ nPhase = "input"
    /\ nOnce' = normalize_field_name(Str(nInput))
    /\ nPhase' = "once"
    /\ UNCHANGED <<nInput, nTwice>>

NormalizeTwice ==
    /\ nPhase = "once"
    /\ nTwice' = normalize_field_name(Str(nOnce))
    /\ nPhase' = "twice"
    /\ UNCHANGED <<nInput, nOnce>>

NormalizeNext ==
    \/ NormalizeOnce /\ UNCHANGED <<pvars, tvars>>
    \/ NormalizeTwice /\ UNCHANGED <<pvars, tvars>>

NormalizeInit == PIdle /\ TIdle /\ NInit

NormalizeSpec == NormalizeInit /\ [][NormalizeNext]_vars

---------------------------------------------------------------------------
(* The run of the orchestrator *)

Init == PInit /\ TIdle /\ NIdle

Next ==
    \/ CountTotalOk /\ UNCHANGED <<tvars, nvars>>
    \/ CountTotalFail /\ UNCHANGED <<tvars, nvars>>
    \/ Submit /\ UNCHANGED <<tvars, nvars>>
    \/ EndSubmit /\ UNCHANGED <<tvars, nvars>>
    \/ \E i \in Units : StartUnit(i) /\ UNCHANGED <<tvars, nvars>>
    \/ \E i \in Units : FetchMetadataOk(i) /\ UNCHANGED <<tvars, nvars>>
    \/ \E i \in Units : FetchMetadataFail(i) /\ UNCHANGED <<tvars, nvars>>
    \/ \E i \in Units : FetchPageOk(i) /\ UNCHANGED <<tvars, nvars>>
    \/ \E i \in Units : FetchPageFail(i) /\ UNCHANGED <<tvars, nvars>>
    \/ \E i \in Units : TransformRecordOk(i) /\ UNCHANGED <<tvars, nvars>>
    \/ \E i \in Units : TransformRecordFail(i) /\ UNCHANGED <<tvars, nvars>>
    \/ \E i \in Units : StoreRecordOk(i) /\ UNCHANGED <<tvars, nvars>>
    \/ \E i \in Units : StoreRecordFail(i) /\ UNCHANGED <<tvars, nvars>>
    \/ \E i \in Units : StoreRecordFailAfterSave(i) /\ UNCHANGED <<tvars, nvars>>
    \/ WaitResultsRaise /\ UNCHANGED <<tvars, nvars>>
    \/ WaitResultsOk /\ UNCHANGED <<tvars, nvars>>
    \/ ExitPoolReturn /\ UNCHANGED <<tvars, nvars>>
    \/ ExitPoolRaise /\ UNCHANGED <<tvars, nvars>>

Spec == Init /\ [][Next]_vars

---------------------------------------------------------------------------
(* Properties of the orchestrator (specification Spec) *)

Finished == pc \in {"returned", "raised"}
FailedUnits == {i \in Units : futures[i].state = "Failed"}
FetchedUnits == {i \in Units : futures[i].state \notin {"Pending", "FetchingMeta"}}
HoldsCatalog == {i \in Units :
                   futures[i].state \in {"FetchingPage", "Transforming", "Storing", "Done"}}

\* the issues of the page that starts at (i - 1) * pageSize
RecordsOfPage(i) == {r \in 0..(total - 1) : r \div pageSize = i - 1}

\* what unit i has saved so far is on disk
Persisted(i) ==
    {futures[i].start + j : j \in 0..(futures[i].k - 1)} \subseteq store

C2_OtherUnitsComplete ==
    (Finished /\ Cardinality(FailedUnits) = 1) =>
        /\ Len(futures) = iterations
        /\ \A i \in Units \ FailedUnits :
              /\ futures[i].state = "Done"
              /\ RecordsOfPage(i) \subseteq store

C2_Witness ==
    /\ pc = "raised"
    /\ Len(futures) > MaxWorkers
    /\ FailedUnits = {1}
    /\ \A i \in Units \ {1} : futures[i].state = "Done" /\ RecordsOfPage(i) \subseteq store

\* C3: once the submit loop is over, the total was queried once and the units
\* are exactly one per offset 0, pageSize, ..., (pageCount - 1) * pageSize,
\* pageCount the least n with n * pageSize >= total.
C3_OneUnitPerOffset ==
    (pc \in {"wait", "exit_ok", "exit_err"} \/ (Finished /\ runError # CountError)) =>
        /\ countQueries = 1
        /\ Len(futures) * pageSize >= total
        /\ (Len(futures) - 1) * pageSize < total
        /\ \A i \in Units : futures[i].start = (i - 1) * pageSize
        /\ \A i, j \in Units : i # j => futures[i].start # futures[j].start

C3_Witness ==
    /\ pc = "wait"
    /\ total = 5
    /\ pageSize = 2
    /\ [i \in Units |-> futures[i].start] = <<0, 2, 4>>

\* C4 as claimed: the fetch of the last page asks for at most the issues left
\* after its offset.
C4_LastFetchAtMostRemaining ==
    \A i \in Units :
        (i = iterations /\ futures[i].req # -1) =>
            futures[i].req <= total - futures[i].start

\* C4 as the code has it: every fetch, the last one too, asks for pageSize
\* issues; only the page that comes back is cut to the issues left.
C4_EveryFetchAsksPageSize ==
    \A i \in Units :
        futures[i].req # -1 =>
            /\ futures[i].req = pageSize
            /\ futures[i].got = Min(pageSize, total - futures[i].start)
            /\ futures[i].got <= total - futures[i].start

C4_Witness ==
    /\ total = 5
    /\ pageSize = 2
    /\ Len(futures) = 3
    /\ futures[3].start = 4
    /\ futures[3].req = 2
    /\ futures[3].got = 1
    /\ futures[3].state = "Done"

\* C8: at most MaxWorkers page units are executing at once, and so are the
\* outstanding requests, the open writes and the issues in work (each unit
\* has at most one issue in work).
InWork(i) ==
    IF futures[i].state \in {"Transforming", "Storing"}
    THEN {futures[i].start + futures[i].k} ELSE {}

C8_PoolWidthBoundsUnits ==
    /\ Cardinality(Running) <= MaxWorkers
    /\ Cardinality({i \in Units : futures[i].state \in {"FetchingMeta", "FetchingPage"}})
         + Cardinality({i \in Units : futures[i].state = "Storing"}) <= MaxWorkers
    /\ \A i \in Units : Cardinality(InWork(i)) <= 1
    /\ Cardinality(UNION {InWork(i) : i \in Units}) <= MaxWorkers

C8_Witness ==
    /\ Cardinality(Running) = MaxWorkers
    /\ \E i \in Units : futures[i].state = "Pending"
    /\ \E i \in Units : futures[i].state = "Storing"
    /\ \E i \in Units : futures[i].state = "FetchingPage"

\* C9 as claimed: the run ends only after every unit is Done or Failed, it
\* returns iff no unit failed, it raises the failure of the first failed unit
\* in wait order, and what the units saved stays on disk.
C9_ReturnsIffNoUnitFailed ==
    Finished =>
        /\ \A i \in Units : futures[i].state \in Terminal
        /\ (pc = "returned") <=> (FailedUnits = {})
        /\ FailedUnits # {} =>
              /\ runError.kind = "unit"
              /\ runError.unit \in FailedUnits
              /\ \A i \in FailedUnits : runError.unit <= i
        /\ \A i \in Units : Persisted(i)

\* C9 as the code has it: the same, but the run also fails, before any unit
\* is launched, when the count query fails; it returns iff the count query
\* succeeded and no unit failed.
C9_ReturnsIffCountedAndNoUnitFailed ==
    Finished =>
        /\ \A i \in Units : futures[i].state \in Terminal
        /\ (pc = "returned") <=> (runError # CountError /\ FailedUnits = {})
        /\ runError = CountError => futures = <<>>
        /\ FailedUnits # {} =>
              /\ runError.kind = "unit"
              /\ runError.unit \in FailedUnits
              /\ \A i \in FailedUnits : runError.unit <= i
        /\ \A i \in Units : Persisted(i)
        /\ \A i \in Units : futures[i].state = "Done" => RecordsOfPage(i) \subseteq store

C9_Witness ==
    /\ pc = "raised"
    /\ FailedUnits = {2, 3}
    /\ runError = UnitError(2)
    /\ futures[1].state = "Done"
    /\ futures[3].k = 1
    /\ store = RecordsOfPage(1) \cup {futures[3].start}

---------------------------------------------------------------------------
(* Properties of transform_issue (specification TransformSpec) *)

Called == tPhase = "called"
CustomKeys(fields) ==
    {fields[i].key : i \in {j \in 1..Len(fields) : StartsWith(fields[j].key, CustomPrefix)}}

\* the normalized token the catalog gives a field id (empty: no rename)
Token(key) == get_normalized_field_name(tCatalog0, key)

\* among the dynamic fields of the input that get token t, the one that comes
\* last in the order of the fields mapping
LastWithToken(t) ==
    LET same == {k \in CustomKeys(tIssue0.fields) : Token(k) = t}
    IN CHOOSE k \in same :
          \A h \in same : IndexOf(tIssue0.fields, h) <= IndexOf(tIssue0.fields, k)

\* C5: an issue that is no mapping, an issue without "fields" and a catalog
\* that is no sequence each make transform_issue raise its validation error,
\* and the issue and the catalog are then as they were passed in.
C5_ValidationBeforeAnyRename ==
    (Called /\ (\/ tIssue0.kind # "dict"
                \/ ~tIssue0.hasFields
                \/ tCatalog0.kind \notin {"list", "tuple"})) =>
        /\ tResult \in ValidationErrors
        /\ tIssue0.kind # "dict" => tResult = ErrIssueNotDict
        /\ (tIssue0.kind = "dict" /\ ~tIssue0.hasFields) => tResult = ErrNoFields
        /\ tIssue = tIssue0
        /\ tCatalog = tCatalog0

C5_Witness ==
    /\ Called
    /\ tIssue0.hasFields
    /\ tIssue0.fields = <<[key |-> FixedFieldA, val |-> "Z"]>>
    /\ tCatalog0.kind = "dict"
    /\ tResult = ErrMetadataNotList
    /\ tIssue = tIssue0

\* C6 as claimed: every dynamic field whose id the catalog names with a
\* non-empty token is gone and its own value sits under the token; the other
\* dynamic fields stay; an issue without dynamic fields is unchanged.
C6_EveryDynamicFieldKeepsItsValue ==
    (Called /\ tResult = "returned") =>
        /\ \A k \in CustomKeys(tIssue0.fields) :
              IF Token(k) # <<>>
              THEN /\ ~HasKey(tIssue.fields, k)
                   /\ HasKey(tIssue.fields, Token(k))
                   /\ ValueOf(tIssue.fields, Token(k)) = ValueOf(tIssue0.fields, k)
              ELSE /\ HasKey(tIssue.fields, k)
                   /\ ValueOf(tIssue.fields, k) = ValueOf(tIssue0.fields, k)
        /\ CustomKeys(tIssue0.fields) = {} => tIssue = tIssue0

\* C6 as the code has it: the same, except that when several dynamic fields
\* of the issue get the same token, the token holds the value of the one that
\* comes last in the fields mapping.
C6_DynamicFieldsRenamed ==
    (Called /\ tResult = "returned") =>
        /\ \A k \in CustomKeys(tIssue0.fields) :
              IF Token(k) # <<>>
              THEN /\ ~HasKey(tIssue.fields, k)
                   /\ HasKey(tIssue.fields, Token(k))
                   /\ ValueOf(tIssue.fields, Token(k)) =
                         ValueOf(tIssue0.fields, LastWithToken(Token(k)))
              ELSE /\ HasKey(tIssue.fields, k)
                   /\ ValueOf(tIssue.fields, k) = ValueOf(tIssue0.fields, k)
        /\ CustomKeys(tIssue0.fields) = {} => tIssue = tIssue0

C6_Witness ==
    /\ Called
    /\ tIssue0.fields = <<[key |-> CustomField1, val |-> "X"]>>
    /\ tCatalog0.entries =
          <<[isDict |-> TRUE, id |-> CustomField1, name |-> Str(<<"U+00E9", " ", "B">>)]>>
    /\ tIssue.fields = <<[key |-> <<"e", "-", "b">>, val |-> "X"]>>

\* C7: a rename onto a key that is already there overwrites it: the token is
\* one key of the result, it holds the value of the dynamic field processed
\* last, and the values it held before (of a fixed field of that name, of the
\* dynamic fields renamed earlier) are nowhere in the result.
C7_LastRenameWins ==
    (Called /\ tResult = "returned") =>
        \A k \in CustomKeys(tIssue0.fields) :
            Token(k) # <<>> =>
                LET t == Token(k)
                    last == LastWithToken(t)
                    out == tIssue.fields
                IN /\ Cardinality({i \in 1..Len(out) : out[i].key = t}) = 1
                   /\ ValueOf(out, t) = ValueOf(tIssue0.fields, last)
                   /\ k # last => ValueOf(tIssue0.fields, k) \notin Values(out)
                   /\ HasKey(tIssue0.fields, t) =>
                         ValueOf(tIssue0.fields, t) \notin Values(out)

C7_Witness ==
    /\ Called
    /\ tIssue0.fields = <<[key |-> CustomField2, val |-> "Y"],
                          [key |-> FixedFieldA, val |-> "Z"],
                          [key |-> CustomField1, val |-> "X"]>>
    /\ Token(CustomField1) = <<"a">>
    /\ Token(CustomField2) = <<"a">>
    /\ tIssue.fields = <<[key |-> <<"a">>, val |-> "X"]>>

---------------------------------------------------------------------------
(* Properties of normalize_field_name (specification NormalizeSpec) *)

\* runs of [a-z0-9] separated by single hyphens, none leading or trailing
WellFormedToken(s) ==
    /\ \A i \in 1..Len(s) : s[i] \in Range(LowerLetters) \cup Digits \cup {"-"}
    /\ s # <<>> => s[1] # "-" /\ s[Len(s)] # "-"
    /\ \A i \in 1..(Len(s) - 1) : ~(s[i] = "-" /\ s[i + 1] = "-")

\* C10: a non-empty output of normalize_field_name is a well-formed token and
\* normalizing it again gives it back.
C10_NormalizeIdempotent ==
    (nPhase = "twice" /\ nOnce # <<>>) =>
        /\ nTwice = nOnce
        /\ WellFormedToken(nOnce)

C10_Witness ==
    /\ nPhase = "twice"
    /\ nInput = <<"U+00E9", "_", "B">>
    /\ nOnce = <<"e", "-", "b">>
    /\ nTwice = <<"e", "-", "b">>

=============================================================================
